---- MODULE Spec2Model ----
(***************************************************************************)
(* Model of the Todo API of scripts/backend-main.py: one SQLite table      *)
(* "todos" behind five FastAPI handlers.                                   *)
(*                                                                         *)
(* A request takes three steps: get_db opens a session and the body is     *)
(* parsed into its typed record (get_db_open), the handler runs (one       *)
(* action per handler) and returns, which ends the life of its body        *)
(* parameter, and get_db's finally closes the session (get_db_close).  The handlers are "async def" without any await, so     *)
(* each runs to completion on the event loop before the next one starts:   *)
(* requests are handled one after the other.                               *)
(*                                                                         *)
(* Each handler is a pure operator (<handler>_result) from the table, the  *)
(* request and the place where the storage fails, if it does, to the table *)
(* it leaves and the response; the action applies it.                      *)
(*                                                                         *)
(* Python values: a string is a sequence of characters; an Optional value  *)
(* is a sequence of length <= 1 (None is << >>, a value v is << v >>).     *)
(* The table is a function from the ids of its rows to the rows.           *)
(***************************************************************************)
EXTENDS Integers, Sequences, FiniteSets, TLC

VARIABLES todos, now, phase, req, resp, session, commits, everIds, created

vars == <<todos, now, phase, req, resp, session, commits, everIds, created>>

(* ------------------------------ bounds -------------------------------- *)

\* Writes (creates, updates, deletes) a run commits.
MaxCommits == 3
\* Last instant the clock reaches.
MaxTime == 1

(* --------------------------- Python values ---------------------------- *)

SP == " "

\* The titles requests carry: empty, whitespace only, padded on the left,
\* padded on the right.
Titles == {<< >>, <<SP>>, <<SP, "a">>, <<"b", SP>>}

\* The description requests carry: padded on both sides, with whitespace
\* inside.
Descriptions == {<<SP, "c", SP, "d", SP>>}

None == << >>
Some(v) == <<v>>
Optional(S) == {None} \cup {Some(v) : v \in S}

RECURSIVE lstrip(_)
lstrip(s) == IF s # << >> /\ Head(s) = SP THEN lstrip(Tail(s)) ELSE s

RECURSIVE rstrip(_)
rstrip(s) ==
    IF s # << >> /\ s[Len(s)] = SP THEN rstrip(SubSeq(s, 1, Len(s) - 1)) ELSE s

\* str.strip()
strip(s) == rstrip(lstrip(s))

(* ------------------------------ the table ----------------------------- *)

\* The id SQLite gives a new row of an INTEGER PRIMARY KEY column declared
\* without AUTOINCREMENT: one more than the largest id in the table.
NextId(T) ==
    IF DOMAIN T = {} THEN 1
    ELSE (CHOOSE m \in DOMAIN T : \A i \in DOMAIN T : i <= m) + 1

\* An id that is not in the table: the id of a deleted row when there is
\* one, else an id that no create has been given yet.
AbsentId(T, ever) ==
    IF ever \ DOMAIN T # {}
    THEN CHOOSE m \in ever \ DOMAIN T : \A i \in ever \ DOMAIN T : m <= i
    ELSE IF ever = {} THEN 1
    ELSE (CHOOSE m \in ever : \A i \in ever : i <= m) + 1

\* What a handler returns for a row: the ORM object with its id.
Entity(T, id) == [id |-> id] @@ T[id]

\* Mutant of first: the query without its filter, the first row of the table.
firstUnfiltered(T, id) ==
    IF DOMAIN T = {} THEN {}
    ELSE {Entity(T, CHOOSE m \in DOMAIN T : \A i \in DOMAIN T : m <= i)}

\* db.query(TodoDB).filter(TodoDB.id == todo_id).first(): the row of that id,
\* as a set of at most one entity.
first(T, id) == IF id \in DOMAIN T THEN {Entity(T, id)} ELSE {}

\* db.query(TodoDB).all()
all(T) == {Entity(T, i) : i \in DOMAIN T}

Insert(T, id, row) == [i \in DOMAIN T \cup {id} |-> IF i = id THEN row ELSE T[i]]

\* Mutant of Remove: the delete is never committed.
RemoveUncommitted(T, id) == T

\* db.delete(db_todo); db.commit()
Remove(T, id) == [i \in DOMAIN T \ {id} |-> T[i]]

\* Mutant of Rollback: the failed write stays.
RollbackKeeps(T, T1) == T1

\* db.rollback() after a failed write of T1 over T: the table is T again.
Rollback(T, T1) == T

\* response_model=Todo: description is str and completed is bool.
TodoValid(e) == e.title # None /\ e.description # None /\ e.completed # None

(* ------------------------------ requests ------------------------------ *)

FieldNames == {"title", "description", "completed"}

\* TodoUpdate: fields is the set of fields the request supplies
\* (exclude_unset); a field that is not supplied holds its default, None.
TodoUpdate ==
    {u \in [fields : SUBSET FieldNames,
            title : Optional(Titles),
            description : Optional(Descriptions),
            completed : Optional(BOOLEAN)] :
        /\ "title" \notin u.fields => u.title = None
        /\ "description" \notin u.fields => u.description = None
        /\ "completed" \notin u.fields => u.completed = None}

NoUpdate == [fields |-> {}, title |-> None, description |-> None, completed |-> None]

\* TodoCreate: title is a str; description is Optional[str], "" by default.
TodoCreate ==
    [fields : {{"title", "description"}},
     title : {Some(s) : s \in Titles},
     description : Optional(Descriptions),
     completed : {None}]

NoReq == [op |-> "none", id |-> 0, data |-> NoUpdate]

\* The requests whose path names one of ids.
Requests(ids) ==
    [op : {"list"}, id : {0}, data : {NoUpdate}]
    \cup [op : {"get", "delete"}, id : ids, data : {NoUpdate}]
    \cup [op : {"create"}, id : {0}, data : TodoCreate]
    \cup [op : {"update"}, id : ids, data : TodoUpdate]

Writes == {"create", "update", "delete"}

(* ------------------------------ responses ----------------------------- *)

OK == 200
BadRequest == 400
NotFound == 404
ServerFailure == 500

NoResp == [status |-> 0, fault |-> "none", accessed |-> FALSE, body |-> {}]

\* fault: where the storage failed while the handler ran ("none": nowhere).
\* accessed: whether the handler called the session at all.
Reply(status, fault, accessed, body) ==
    [status |-> status, fault |-> fault, accessed |-> accessed, body |-> body]

\* FastAPI validates what the handler returned against response_model after
\* the handler has returned: a row that is not a Todo is a server failure.
Serialize(fault, rows) ==
    IF \A e \in rows : TodoValid(e)
    THEN Reply(OK, fault, TRUE, rows)
    ELSE Reply(ServerFailure, fault, TRUE, {})

(* ------------------------------ handlers ------------------------------ *)

\* The outcome of a handler: the table it leaves, its response, and whether
\* a db.commit() of it has succeeded.
Outcome(T, r, c) == [todos |-> T, resp |-> r, committed |-> c]

\* Mutant of NewRow: the two timestamps the other way round.
NewRowSwapped(title, description, t1, t2) ==
    [title |-> Some(title), description |-> Some(description),
     completed |-> Some(FALSE), created_at |-> t2, updated_at |-> t1]

\* Column defaults of a new row: completed False, created_at and updated_at
\* each from its own call of datetime.utcnow (t1, then t2).
NewRow(title, description, t1, t2) ==
    [title |-> Some(title), description |-> Some(description),
     completed |-> Some(FALSE), created_at |-> t1, updated_at |-> t2]

\* Mutant of TitleBlank: the title is tested without being stripped.
TitleBlankUnstripped(d) == d.title[1] = << >>

\* not <title>.strip(), for a title that is a str
TitleBlank(d) == strip(d.title[1]) = << >>

\* title=todo.title.strip()
CreateTitle(d) == strip(d.title[1])

\* description=todo.description.strip() if todo.description else ""
CreateDescription(d) ==
    IF d.description # None /\ d.description[1] # << >>
    THEN strip(d.description[1])
    ELSE << >>

\* Mutant of Stripped: the value is assigned as it came.
Unstripped(v) == v

\* One pass of the setattr loop: a str value of title or description is
\* stripped, any other value (None, a bool) is assigned as it is.
Stripped(v) == IF v = None THEN None ELSE Some(strip(v[1]))

\* Mutant of ApplyUpdate: a completed that the request does not supply is
\* set to the column default.
ApplyUpdateDefaults(row, d, t) ==
    [title |-> IF "title" \in d.fields THEN Stripped(d.title) ELSE row.title,
     description |->
        IF "description" \in d.fields THEN Stripped(d.description)
        ELSE row.description,
     completed |-> IF "completed" \in d.fields THEN d.completed ELSE Some(FALSE),
     created_at |-> row.created_at,
     updated_at |-> t]

\* The row after the setattr loop and updated_at = datetime.utcnow().
ApplyUpdate(row, d, t) ==
    [title |-> IF "title" \in d.fields THEN Stripped(d.title) ELSE row.title,
     description |->
        IF "description" \in d.fields THEN Stripped(d.description)
        ELSE row.description,
     completed |-> IF "completed" \in d.fields THEN d.completed ELSE row.completed,
     created_at |-> row.created_at,
     updated_at |-> t]

list_result(T, fault) ==
    IF fault = "query"
    THEN Outcome(T, Reply(ServerFailure, fault, TRUE, {}), FALSE)
    ELSE Outcome(T, Serialize("none", all(T)), FALSE)

get_result(T, id, fault) ==
    IF fault = "query"
    THEN Outcome(T, Reply(ServerFailure, fault, TRUE, {}), FALSE)
    ELSE IF first(T, id) = {}
    THEN Outcome(T, Reply(NotFound, "none", TRUE, {}), FALSE)
    ELSE Outcome(T, Serialize("none", first(T, id)), FALSE)

create_result(T, d, fault, t1, t2) ==
    IF TitleBlank(d)
    THEN Outcome(T, Reply(BadRequest, "none", FALSE, {}), FALSE)
    ELSE LET id == NextId(T)
             T1 == Insert(T, id, NewRow(CreateTitle(d), CreateDescription(d), t1, t2))
         IN  IF fault = "commit"
             THEN Outcome(Rollback(T, T1), Reply(ServerFailure, fault, TRUE, {}), FALSE)
             ELSE IF fault = "refresh"
             THEN Outcome(T1, Reply(ServerFailure, fault, TRUE, {}), TRUE)
             ELSE Outcome(T1, Serialize("none", first(T1, id)), TRUE)

\* Mutant of update_result: the title is tested after the row is written.
update_result_check_last(T, id, d, fault, t) ==
    IF fault = "query"
    THEN Outcome(T, Reply(ServerFailure, fault, TRUE, {}), FALSE)
    ELSE IF first(T, id) = {}
    THEN Outcome(T, Reply(NotFound, "none", TRUE, {}), FALSE)
    ELSE IF "title" \in d.fields /\ d.title = None
    THEN Outcome(Rollback(T, T), Reply(ServerFailure, "none", TRUE, {}), FALSE)
    ELSE LET T1 == [T EXCEPT ![id] = ApplyUpdate(T[id], d, t)]
         IN  IF fault = "commit"
             THEN Outcome(Rollback(T, T1), Reply(ServerFailure, fault, TRUE, {}), FALSE)
             ELSE IF "title" \in d.fields /\ TitleBlank(d)
             THEN Outcome(T1, Reply(BadRequest, "none", TRUE, {}), TRUE)
             ELSE IF fault = "refresh"
             THEN Outcome(T1, Reply(ServerFailure, fault, TRUE, {}), TRUE)
             ELSE Outcome(T1, Serialize("none", first(T1, id)), TRUE)

update_result(T, id, d, fault, t) ==
    IF fault = "query"
    THEN Outcome(T, Reply(ServerFailure, fault, TRUE, {}), FALSE)
    ELSE IF first(T, id) = {}
    THEN Outcome(T, Reply(NotFound, "none", TRUE, {}), FALSE)
    ELSE IF "title" \in d.fields /\ d.title = None
    \* None.strip() raises AttributeError: except Exception, rollback
    THEN Outcome(Rollback(T, T), Reply(ServerFailure, "none", TRUE, {}), FALSE)
    ELSE IF "title" \in d.fields /\ TitleBlank(d)
    THEN Outcome(T, Reply(BadRequest, "none", TRUE, {}), FALSE)
    ELSE LET T1 == [T EXCEPT ![id] = ApplyUpdate(T[id], d, t)]
         IN  IF fault = "commit"
             THEN Outcome(Rollback(T, T1), Reply(ServerFailure, fault, TRUE, {}), FALSE)
             ELSE IF fault = "refresh"
             THEN Outcome(T1, Reply(ServerFailure, fault, TRUE, {}), TRUE)
             ELSE Outcome(T1, Serialize("none", first(T1, id)), TRUE)

delete_result(T, id, fault) ==
    IF fault = "query"
    THEN Outcome(T, Reply(ServerFailure, fault, TRUE, {}), FALSE)
    ELSE IF first(T, id) = {}
    THEN Outcome(T, Reply(NotFound, "none", TRUE, {}), FALSE)
    ELSE IF fault = "commit"
    THEN Outcome(Rollback(T, Remove(T, id)), Reply(ServerFailure, fault, TRUE, {}), FALSE)
    ELSE Outcome(Remove(T, id), Reply(OK, "none", TRUE, {}), TRUE)

(* -------------------------------- Init -------------------------------- *)

\* now: the instant datetime.utcnow returned last.
\* commits: the writes committed so far (history).
\* everIds: every id a committed create has assigned so far (history).
\* created: what the latest successful create returned, for as long as no
\* write to its row has been committed since (history).
Init ==
    /\ todos = << >>
    /\ now = 0
    /\ phase = "idle"
    /\ req = NoReq
    /\ resp = NoResp
    /\ session = "closed"
    /\ commits = 0
    /\ everIds = {}
    /\ created = {}

(* ------------------------------- actions ------------------------------ *)

\* datetime.utcnow(): the instant it returned last, or the next one (the
\* instants are numbered in the order the clock is read at them).
utcnow(last) == {t \in {last, last + 1} : t <= MaxTime}

\* Two calls of datetime.utcnow, one after the other.
utcnow_twice(last) ==
    {ts \in (0..MaxTime) \X (0..MaxTime) :
        ts[1] \in utcnow(last) /\ ts[2] \in utcnow(ts[1])}

\* The ids requests name: the id of every row and one id that has no row.
PathIds == DOMAIN todos \cup {AbsentId(todos, everIds)}

\* get_db up to its yield, and the request parsed into its typed record.
get_db_open ==
    /\ phase = "idle"
    /\ \E r \in Requests(PathIds) :
        /\ r.op \in Writes => commits < MaxCommits
        /\ req' = r
    /\ session' = "open"
    /\ phase' = "handling"
    /\ UNCHANGED <<todos, now, resp, commits, everIds, created>>

\* get_db after its yield: finally db.close().
get_db_close ==
    /\ phase = "responded"
    /\ session' = "closed"
    /\ phase' = "idle"
    /\ req' = NoReq
    /\ resp' = NoResp
    /\ UNCHANGED <<todos, now, commits, everIds, created>>

\* The request once its handler has returned: the body was a parameter of
\* the handler.
Returned(r) == [r EXCEPT !.data = NoUpdate]

\* The handler has run: its outcome is in the table and in the response.
Done(o) ==
    /\ todos' = o.todos
    /\ resp' = o.resp
    /\ req' = Returned(req)
    /\ phase' = "responded"
    /\ commits' = IF o.committed THEN commits + 1 ELSE commits
    /\ UNCHANGED session

Forget(o, id) ==
    IF o.committed /\ \E e \in created : e.id = id THEN {} ELSE created

get_todos ==
    /\ phase = "handling" /\ req.op = "list"
    /\ \E o \in {list_result(todos, fault) : fault \in {"none", "query"}} :
        Done(o)
    /\ UNCHANGED <<now, everIds, created>>

get_todo ==
    /\ phase = "handling" /\ req.op = "get"
    /\ \E o \in {get_result(todos, req.id, fault) : fault \in {"none", "query"}} :
        Done(o)
    /\ UNCHANGED <<now, everIds, created>>

create_todo ==
    /\ phase = "handling" /\ req.op = "create"
    /\ \E o \in {create_result(todos, req.data, fault, ts[1], ts[2]) :
                    fault \in {"none", "commit", "refresh"},
                    ts \in utcnow_twice(now)} :
        /\ Done(o)
        /\ now' = IF o.committed THEN o.todos[NextId(todos)].updated_at ELSE now
        /\ everIds' = everIds \cup DOMAIN o.todos
        /\ created' = IF o.resp.status = OK THEN o.resp.body
                      ELSE Forget(o, NextId(todos))

update_todo ==
    /\ phase = "handling" /\ req.op = "update"
    /\ \E o \in {update_result(todos, req.id, req.data, fault, t) :
                    fault \in {"none", "query", "commit", "refresh"},
                    t \in utcnow(now)} :
        /\ Done(o)
        /\ now' = IF o.committed THEN o.todos[req.id].updated_at ELSE now
        /\ created' = Forget(o, req.id)
    /\ UNCHANGED everIds

delete_todo ==
    /\ phase = "handling" /\ req.op = "delete"
    /\ \E o \in {delete_result(todos, req.id, fault) :
                    fault \in {"none", "query", "commit"}} :
        /\ Done(o)
        /\ created' = Forget(o, req.id)
    /\ UNCHANGED <<now, everIds>>

Next ==
    \/ get_db_open
    \/ get_todos
    \/ get_todo
    \/ create_todo
    \/ update_todo
    \/ delete_todo
    \/ get_db_close

Spec == Init /\ [][Next]_vars

(* ------------------------------- claims ------------------------------- *)

\* A step in which a handler runs: req is the request it answers, resp' its
\* response, todos and todos' the table before and after.
Handled == phase = "handling" /\ phase' = "responded"

\* The request supplies a title (a str) that is empty once trimmed.
SuppliedBlank(d) ==
    "title" \in d.fields /\ d.title # None /\ strip(d.title[1]) = << >>

\* s is not empty and has no leading or trailing whitespace.
Trimmed(s) == s # << >> /\ s[1] # SP /\ s[Len(s)] # SP

\* C1: the id a successful create assigns is the id of no todo in the table
\* and of no todo created before, deleted ones included.
C1_IdNeverReused ==
    [][(Handled /\ req.op = "create" /\ resp'.status = OK)
        => \A e \in resp'.body : e.id \notin DOMAIN todos /\ e.id \notin everIds]_vars

C3_UpdateFrame ==
    [][(Handled /\ req.op = "update" /\ resp'.status = OK)
        => LET d == req.data
               id == req.id
           IN  /\ id \in DOMAIN todos
               /\ DOMAIN todos' = DOMAIN todos
               /\ \A i \in DOMAIN todos \ {id} : todos'[i] = todos[i]
               /\ todos'[id].title =
                    IF "title" \in d.fields
                    THEN Some(strip(d.title[1])) ELSE todos[id].title
               /\ todos'[id].description =
                    IF "description" \in d.fields
                    THEN Some(strip(d.description[1])) ELSE todos[id].description
               /\ todos'[id].completed =
                    IF "completed" \in d.fields
                    THEN d.completed ELSE todos[id].completed
               /\ "title" \in d.fields => d.title # None
               /\ "description" \in d.fields => d.description # None
               /\ "completed" \in d.fields => d.completed # None
               /\ todos'[id].created_at = todos[id].created_at
               /\ todos'[id].updated_at >= todos[id].updated_at
               /\ todos'[id].updated_at = now'
               /\ resp'.body = {[id |-> id] @@ todos'[id]}]_vars

\* One of two todos has been updated at an instant after its creation.
C3_Witness ==
    /\ phase = "responded" /\ req.op = "update" /\ resp.status = OK
    /\ Cardinality(DOMAIN todos) = 2
    /\ resp.body = {Entity(todos, req.id)}
    /\ todos[req.id].completed = Some(TRUE)
    /\ todos[req.id].updated_at > todos[req.id].created_at

\* C4: every stored title is a non-empty string without leading or trailing
\* whitespace, and whenever a handler sets a title it is the trimmed title
\* of the request.
C4_TitlesTrimmed ==
    /\ [](\A i \in DOMAIN todos :
            todos[i].title # None /\ Trimmed(todos[i].title[1]))
    /\ [][Handled =>
            \A i \in DOMAIN todos' :
                (i \notin DOMAIN todos \/ todos'[i].title # todos[i].title)
                => /\ req.op \in {"create", "update"}
                   /\ "title" \in req.data.fields /\ req.data.title # None
                   /\ todos'[i].title = Some(strip(req.data.title[1]))]_vars

\* After a successful update the table holds both titles, trimmed.
C4_Witness ==
    /\ phase = "responded" /\ req.op = "update" /\ resp.status = OK
    /\ todos[req.id].title = Some(<<"b">>)
    /\ \E i \in DOMAIN todos : todos[i].title = Some(<<"a">>)

\* C5: a request answered bad-request leaves the table as it was, and a
\* create, or an update of a stored todo, whose title is blank is answered
\* bad-request whatever else it supplies.
C5_BadRequestNoChange ==
    [][Handled =>
        /\ resp'.status = BadRequest => todos' = todos
        /\ (SuppliedBlank(req.data) /\ resp'.fault = "none"
                /\ (req.op = "create" \/ (req.op = "update" /\ req.id \in DOMAIN todos)))
            => resp'.status = BadRequest]_vars

\* An update of the older of two todos was answered bad-request, and the
\* todo still has the updated_at of an earlier instant.
C5_Witness ==
    /\ phase = "responded" /\ req.op = "update" /\ resp.status = BadRequest
    /\ Cardinality(DOMAIN todos) = 2
    /\ req.id \in DOMAIN todos
    /\ todos[req.id].updated_at < now

\* C6: unless the storage fails, get, update and delete of an id that is not
\* in the table are answered not-found and leave the table as it was; a
\* successful delete removes the row of its id and no other.
C6_NotFound ==
    [][Handled =>
        /\ (req.op \in {"get", "update", "delete"} /\ req.id \notin DOMAIN todos
                /\ resp'.fault = "none")
            => (resp'.status = NotFound /\ todos' = todos)
        /\ (req.op = "delete" /\ resp'.status = OK)
            => /\ req.id \in DOMAIN todos
               /\ DOMAIN todos' = DOMAIN todos \ {req.id}
               /\ \A i \in DOMAIN todos' : todos'[i] = todos[i]]_vars

\* A get of an id whose todo has been deleted is answered not-found.
C6_Witness ==
    /\ phase = "responded" /\ req.op = "get" /\ resp.status = NotFound
    /\ req.id \in everIds /\ req.id \notin DOMAIN todos
    /\ todos # << >>

\* C7: a create, update or delete whose commit fails is answered
\* server-failure and leaves the table as it was; the session of a request
\* is open while its handler runs and closed once the request is over,
\* whatever the response.
C7_RollbackAndRelease ==
    /\ [][(Handled /\ resp'.fault = "commit")
            => (resp'.status = ServerFailure /\ todos' = todos)]_vars
    /\ [](phase = "idle" <=> session = "closed")
    /\ [][phase = "responded" => (phase' = "idle" \/ UNCHANGED <<phase, session>>)]_vars

\* The commit of a delete has failed, and the row is still in the table.
C7_Witness ==
    /\ phase = "responded" /\ req.op = "delete" /\ resp.fault = "commit"
    /\ resp.status = ServerFailure
    /\ req.id \in DOMAIN todos
    /\ session = "open"

\* C8: every stored todo has updated_at >= created_at; a new row takes both
\* from the clock, and no step changes created_at or moves updated_at back.
C8_Timestamps ==
    /\ [](\A i \in DOMAIN todos :
            /\ todos[i].created_at <= todos[i].updated_at
            /\ todos[i].updated_at <= now)
    /\ [][\A i \in DOMAIN todos' :
            IF i \in DOMAIN todos
            THEN /\ todos'[i].created_at = todos[i].created_at
                 /\ todos'[i].updated_at >= todos[i].updated_at
            ELSE todos'[i].created_at >= now]_vars

\* A create has stored and returned a row whose two instants differ.
C8_Witness ==
    \E i \in DOMAIN todos :
        /\ todos[i].created_at < todos[i].updated_at
        /\ phase = "responded" /\ req.op = "create" /\ resp.status = OK
        /\ resp.body = {[id |-> i] @@ todos[i]}

\* C9: a successful create returns the row it stored (the id, the trimmed
\* title and description, completed false, both timestamps), and a get of
\* that id, as long as the row has not been written again or deleted,
\* returns an equal todo.
C9_CreateThenGet ==
    /\ [][(Handled /\ req.op = "create" /\ resp'.status = OK)
            => \E i \in DOMAIN todos' \ DOMAIN todos :
                /\ resp'.body = {[id |-> i] @@ todos'[i]}
                /\ todos'[i].title = Some(strip(req.data.title[1]))
                /\ todos'[i].description =
                     IF req.data.description = None THEN Some(<< >>)
                     ELSE Some(strip(req.data.description[1]))
                /\ todos'[i].completed = Some(FALSE)
                /\ created' = resp'.body]_vars
    /\ [][(Handled /\ req.op = "get" /\ resp'.fault = "none"
                /\ \E e \in created : e.id = req.id)
            => (resp'.status = OK /\ resp'.body = created)]_vars

\* A get has returned what the create of the second todo returned.
C9_Witness ==
    /\ phase = "responded" /\ req.op = "get" /\ resp.status = OK
    /\ resp.body = created
    /\ Cardinality(DOMAIN todos) = 2
    /\ \E e \in created : e.id = 2 /\ e.description = Some(<<"c", SP, "d">>)

\* C10: when the storage does not fail, no request is answered
\* server-failure.
C10_NoServerFailure ==
    (phase = "responded" /\ resp.fault = "none") => resp.status # ServerFailure

====
